---- MODULE Spec2Model ----
(***************************************************************************)
(* retaggr: the ReverseSearch dispatcher (core.py) and the SauceNao engine *)
(* (boorus/saucenao.py).                                                   *)
(*                                                                         *)
(* Strings that the code iterates over (a source url handed to             *)
(* set.update) are sequences of one-character strings; names that are only *)
(* compared are TLA+ strings.                                              *)
(***************************************************************************)
EXTENDS Integers, Sequences, FiniteSets, TLC

VARIABLES
    config,              \* the attributes present on the ReverseSearchConfig
    download_required,   \* class attribute download_required of each engine
    accessible_engines,  \* the dict of __init__, as its items in insertion order
    pc,                  \* "idle", "loop", "searching", "callback", "returned", "raised"
    op,                  \* the public method the caller invoked
    booru,               \* argument of search_image / loop variable of search_image_source
    url,                 \* argument url
    callback,            \* TRUE iff a callback was passed
    argDownload,         \* the download argument the caller passed
    download,            \* the download parameter as search_image_source sees it
    idx,                 \* position of the for loop in accessible_engines
    tags,                \* local tags of search_image_source
    source,              \* local source of search_image_source
    invoked,             \* engine search_image calls of this call: <<[engine, url]>>
    lastResult,          \* what the engine search_image call in progress produced
    returnedTags,        \* union of the tag sets engines returned in this call
    returnedSources,     \* the source urls engines returned in this call
    cbLog,               \* engine names the callback was invoked with, in order
    cbArgs,              \* arguments of the callback invocation in progress
    outcome,             \* what the public method returned or raised
    active,              \* the engine searches and callbacks in progress
    json,                \* a SauceNao response handed to index_parser
    parsed,              \* what index_parser produced for json
    api_key,             \* SauceNao.api_key
    requests,            \* the requests the SauceNao engine has issued
    tagSearch            \* what the last SauceNao.search_tag call produced

vars == <<config, download_required, accessible_engines, pc, op, booru, url,
          callback, argDownload, download, idx, tags, source, invoked,
          lastResult, returnedTags, returnedSources, cbLog, cbArgs, outcome,
          active, json, parsed, api_key, requests, tagSearch>>

registryVars == <<config, download_required, accessible_engines>>
parserVars == <<json, parsed, api_key, requests, tagSearch>>
callVars == <<pc, op, booru, url, callback, argDownload, download, idx, tags,
              source, invoked, lastResult, returnedTags, returnedSources,
              cbLog, cbArgs, outcome, active>>

----------------------------------------------------------------------------
(* Inputs *)

\* Attributes a ReverseSearchConfig can carry (those __init__ looks at).
ConfigFields == {"min_score", "danbooru_username", "danbooru_api_key",
                 "e621_username", "app_name", "version", "saucenao_api_key"}

\* ReverseSearch._all_engines
_all_engines == <<"danbooru", "e621", "iqdb", "paheal", "saucenao">>

AllEngineNames == {_all_engines[i] : i \in DOMAIN _all_engines}

\* Names a caller may pass to search_image: the enumeration and two strangers.
BooruNames == AllEngineNames \cup {"nO", "gelbooru"}

Urls == {"url1", "url2"}

Tags == {"t1", "t2"}

\* Source urls, as character sequences.
SourceUrls == {<<"a", "b">>, <<"c", "d">>}

None == [kind |-> "none", str |-> <<>>, set |-> {}]
Str(s) == [kind |-> "str", str |-> s, set |-> {}]
SetOf(S) == [kind |-> "set", str |-> <<>>, set |-> S]

\* The values an engine may put in result["source"]: None, one string, or a
\* set of strings.
SourceValues == {None, Str(<<"a", "b">>), SetOf({}), SetOf(SourceUrls)}

\* The dicts an image search of an engine may return.
SearchResults == [tags : SUBSET Tags, source : SourceValues]

Returned(r) == [status |-> "returned", error |-> "", value |-> r]
Raised(e) == [status |-> "raised", error |-> e,
              value |-> [tags |-> {}, source |-> None]]
NoResult == [status |-> "none", error |-> "",
             value |-> [tags |-> {}, source |-> None]]

----------------------------------------------------------------------------
(* Engines *)

\* SauceNao.download_required
SauceNao_download_required == FALSE

\* The download_required flags the engine classes may carry.
DownloadRequiredChoices ==
    {f \in [AllEngineNames -> BOOLEAN] : f["saucenao"] = SauceNao_download_required}

\* SauceNao.search_image: subscripts the coroutine object that the un-awaited
\* call of the async search_image_source returns, which raises TypeError.
SauceNao_search_image(u) == {Raised("TypeError")}

\* search_image of the other engines: a SearchResult, or a failure of the
\* request.
Engine_search_image(u) ==
    {Raised("EngineError")} \cup {Returned(r) : r \in SearchResults}

\* accessible_engines[booru].search_image(url)
EngineSearchImage(e, u) ==
    IF e = "saucenao" THEN SauceNao_search_image(u) ELSE Engine_search_image(u)

----------------------------------------------------------------------------
(* ReverseSearch.__init__ *)

hasattr(c, f) == f \in c

Engine(key, cls, args) == [key |-> key, engine |-> cls, args |-> args]

\* __init__ with the iqdb line moved out of the min_score block.
Construct_iqdb_ungated(c) ==
    LET a0 == <<>>
        a1 == IF hasattr(c, "min_score")
                  /\ hasattr(c, "danbooru_username")
                  /\ hasattr(c, "danbooru_api_key")
              THEN Append(a0, Engine("danbooru", "Danbooru",
                       <<"danbooru_username", "danbooru_api_key", "min_score">>))
              ELSE a0
        a2 == IF hasattr(c, "min_score")
                  /\ hasattr(c, "e621_username")
                  /\ hasattr(c, "app_name")
                  /\ hasattr(c, "version")
              THEN Append(a1, Engine("e621", "E621",
                       <<"e621_username", "app_name", "version", "min_score">>))
              ELSE a1
        a3 == Append(a2, Engine("iqdb", "Iqdb", <<"min_score">>))
        a4 == IF hasattr(c, "saucenao_api_key")
              THEN Append(a3, Engine("saucenao", "SauceNao", <<"saucenao_api_key">>))
              ELSE a3
    IN  Append(a4, Engine("paheal", "Paheal", <<>>))

\* The body of __init__: accessible_engines after construction from config c.
Construct(c) ==
    LET a0 == <<>>
        a1 == IF hasattr(c, "min_score")
                  /\ hasattr(c, "danbooru_username")
                  /\ hasattr(c, "danbooru_api_key")
              THEN Append(a0, Engine("danbooru", "Danbooru",
                       <<"danbooru_username", "danbooru_api_key", "min_score">>))
              ELSE a0
        a2 == IF hasattr(c, "min_score")
                  /\ hasattr(c, "e621_username")
                  /\ hasattr(c, "app_name")
                  /\ hasattr(c, "version")
              THEN Append(a1, Engine("e621", "E621",
                       <<"e621_username", "app_name", "version", "min_score">>))
              ELSE a1
        a3 == IF hasattr(c, "min_score")
              THEN Append(a2, Engine("iqdb", "Iqdb", <<"min_score">>))
              ELSE a2
        a4 == IF hasattr(c, "saucenao_api_key")
              THEN Append(a3, Engine("saucenao", "SauceNao", <<"saucenao_api_key">>))
              ELSE a3
    IN  Append(a4, Engine("paheal", "Paheal", <<>>))

\* booru in self.accessible_engines
Accessible(reg) == {reg[i].key : i \in DOMAIN reg}

\* The configuration attributes each engine's constructor is given.
RequiredFields(e) ==
    CASE e = "danbooru" -> {"danbooru_username", "danbooru_api_key", "min_score"}
      [] e = "e621"     -> {"e621_username", "app_name", "version", "min_score"}
      [] e = "iqdb"     -> {"min_score"}
      [] e = "saucenao" -> {"saucenao_api_key"}
      [] e = "paheal"   -> {}

----------------------------------------------------------------------------
(* SauceNao.index_parser *)

\* SauceNao.source_indexes
source_indexes == <<5, 16, 37, 34>>

\* Largest number of candidates in a response.
MaxResults == 3

\* index_id values of candidates: two of source_indexes and one outside.
CandidateIndexIds == {5, 37, 9}

\* similarity fields: decimal strings, as digit sequences.
CandidateSimilarities == {<<"4", "0">>, <<"5", "0">>, <<"6", "0">>, <<"7", "0">>}

\* data.ext_urls of a candidate.
CandidateExtUrls == {<< <<"a", "b">> >>, << <<"c", "d">>, <<"a", "b">> >>}

\* header.minimum_similarity of a response.
MinimumSimilarities == {50}

Candidates ==
    [index_id : CandidateIndexIds, similarity : CandidateSimilarities,
     ext_urls : CandidateExtUrls]

SeqsUpTo(S, n) == UNION {[1..k -> S] : k \in 0..n}

Responses ==
    [minimum_similarity : MinimumSimilarities, results : SeqsUpTo(Candidates, MaxResults)]

\* A response before any is parsed.
NoJson == [minimum_similarity |-> 0, results |-> <<>>]

\* index_parser not run yet.
NotParsed == [status |-> "none", error |-> "", tags |-> "None", source |-> None]

\* search_tag not called yet.
NoTagSearch == [status |-> "none", error |-> "", tag |-> ""]

DigitValue(d) ==
    CASE d = "0" -> 0 [] d = "1" -> 1 [] d = "2" -> 2 [] d = "3" -> 3
      [] d = "4" -> 4 [] d = "5" -> 5 [] d = "6" -> 6 [] d = "7" -> 7
      [] d = "8" -> 8 [] d = "9" -> 9

\* float(s) of a string of decimal digits.
RECURSIVE float(_)
float(s) ==
    IF s = <<>> THEN 0
    ELSE 10 * float(SubSeq(s, 1, Len(s) - 1)) + DigitValue(s[Len(s)])

\* x in source_indexes
InSourceIndexes(x) == \E i \in DOMAIN source_indexes : source_indexes[i] = x

\* list.index(x), counted from 0.
ListIndex(l, x) == (CHOOSE i \in DOMAIN l : l[i] = x /\ \A j \in 1..(i - 1) : l[j] # x) - 1

\* The names bound at module level in saucenao.py.
ModuleGlobals == {"Booru", "NotAvailableSearchOption", "fuck_aiohttp", "SauceNao"}

\* A bare name in a method body resolves in the function's scopes and the
\* module's globals, not in the class body.
NameBound(n) == n \in ModuleGlobals

\* The list comprehension keeping a candidate whose similarity equals the
\* minimum.
RECURSIVE SourceResults_not_strict(_, _)
SourceResults_not_strict(results, base_similarity) ==
    IF results = <<>> THEN <<>>
    ELSE LET entry == Head(results)
             rest == SourceResults_not_strict(Tail(results), base_similarity)
         IN  IF InSourceIndexes(entry.index_id) /\ float(entry.similarity) >= base_similarity
             THEN <<entry>> \o rest
             ELSE rest

\* The list comprehension that builds source_results.
RECURSIVE SourceResults(_, _)
SourceResults(results, base_similarity) ==
    IF results = <<>> THEN <<>>
    ELSE LET entry == Head(results)
             rest == SourceResults(Tail(results), base_similarity)
         IN  IF InSourceIndexes(entry.index_id) /\ float(entry.similarity) > base_similarity
             THEN <<entry>> \o rest
             ELSE rest

\* The test that lets an entry replace the current source.
Replaces(source_priority, list_index) == source_priority < list_index

\* The for loop over source_results, from entry i on.
RECURSIVE ParserLoop(_, _, _, _)
ParserLoop(source_results, i, src, source_priority) ==
    IF i > Len(source_results)
    THEN [status |-> "returned", error |-> "", tags |-> "None", source |-> src]
    ELSE IF ~NameBound("source_indexes")
    THEN [status |-> "raised", error |-> "NameError", tags |-> "None", source |-> None]
    ELSE LET entry == source_results[i]
             list_index == ListIndex(source_indexes, entry.index_id)
         IN  IF Replaces(source_priority, list_index)
             THEN ParserLoop(source_results, i + 1, Str(entry.ext_urls[1]), list_index)
             ELSE ParserLoop(source_results, i + 1, src, source_priority)

\* SauceNao.index_parser(json)
index_parser(j) ==
    ParserLoop(SourceResults(j.results, j.minimum_similarity), 1, None,
               Len(source_indexes))

----------------------------------------------------------------------------
(* ReverseSearch: the public methods *)

\* search_image with its two checks in the other order.
search_image_check_swapped(b, reg) ==
    IF b \notin Accessible(reg) THEN "MissingAPIKeysException"
    ELSE IF b \notin AllEngineNames THEN "NotAValidEngineException"
    ELSE "ok"

\* search_image raising the enumeration's error for an engine that is not
\* activated.
search_image_check_one_error(b, reg) ==
    IF b \notin AllEngineNames \/ b \notin Accessible(reg)
    THEN "NotAValidEngineException"
    ELSE "ok"

\* The two checks of search_image, in the order of the code.
search_image_check(b, reg) ==
    IF b \notin AllEngineNames THEN "NotAValidEngineException"
    ELSE IF b \notin Accessible(reg) THEN "MissingAPIKeysException"
    ELSE "ok"

\* The engine search_image dispatches to: self.accessible_engines[booru].
search_image_engine(b, reg) ==
    (CHOOSE i \in DOMAIN reg : reg[i].key = b)

\* search_image handing back the tags alone.
search_image_return_tags_only(o) == [o EXCEPT !.value.source = None]

\* The value search_image hands back for the engine's outcome o.
search_image_return(o) == o

\* The download argument reverse_search passes on to search_image_source:
\* it calls search_image_source(url, callback), so the default applies.
reverse_search_download(dl) == FALSE

\* The skip test without the look at download.
Skipped_always(e, dl) == download_required[e]

\* The test of the for loop that skips an engine.
Skipped(e, dl) == download_required[e] /\ ~dl

\* bool(result["source"])
Truthy(s) ==
    \/ s.kind = "str" /\ s.str # <<>>
    \/ s.kind = "set" /\ s.set # {}

\* set.update(x): the elements of iterating x; a string iterates over its
\* characters.
Iterate(s) ==
    IF s.kind = "str" THEN {<<s.str[i]>> : i \in DOMAIN s.str} ELSE s.set

\* tags = result["tags"] in place of the update.
TagsUpdate_overwrite(t, r) == r.tags

\* tags.update(result["tags"])
TagsUpdate(t, r) == t \cup r.tags

\* if result["source"]: source.update(result["source"])
SourceUpdate(src, r) ==
    IF Truthy(r.source) THEN src \cup Iterate(r.source) ELSE src

\* The callback handed the accumulated tags.
CallbackArgs_merged(b, r) == [booru |-> b, tags |-> tags \cup r.tags, source |-> r.source]

\* The arguments of callback(booru, set(result["tags"]), result["source"]).
CallbackArgs(b, r) == [booru |-> b, tags |-> r.tags, source |-> r.source]

NoCallbackArgs == [booru |-> "", tags |-> {}, source |-> None]

\* The source urls a result carries, each as one string.
SourcesOf(r) ==
    IF r.source.kind = "str" THEN {r.source.str} ELSE r.source.set

\* An await of an engine's search_image begins / is over.
StartSearch(a, e) == a \cup {[kind |-> "search", engine |-> e]}
EndSearch(a, e) == a \ {[kind |-> "search", engine |-> e]}

\* The callback scheduled without being awaited: nothing marks its end.
EndCallback_not_awaited(a, e) == a

\* An await of the callback begins / is over.
StartCallback(a, e) == a \cup {[kind |-> "callback", engine |-> e]}
EndCallback(a, e) == a \ {[kind |-> "callback", engine |-> e]}

IdleCall ==
    /\ pc = "idle"
    /\ op = ""
    /\ booru = ""
    /\ url = ""
    /\ callback = FALSE
    /\ argDownload = FALSE
    /\ download = FALSE
    /\ idx = 0
    /\ tags = {}
    /\ source = {}
    /\ invoked = <<>>
    /\ lastResult = NoResult
    /\ returnedTags = {}
    /\ returnedSources = {}
    /\ cbLog = <<>>
    /\ cbArgs = NoCallbackArgs
    /\ outcome = NoResult
    /\ active = {}

\* The SauceNao engine right after SauceNao(api_key), nothing parsed yet.
FreshSauceNao(k) ==
    /\ json = NoJson
    /\ parsed = NotParsed
    /\ api_key = k
    /\ requests = <<>>
    /\ tagSearch = NoTagSearch

Init ==
    /\ config \in SUBSET ConfigFields
    /\ download_required \in DownloadRequiredChoices
    /\ accessible_engines = Construct(config)
    /\ IdleCall
    /\ FreshSauceNao("key1")

\* await rs.search_image(b, u), up to the await of the engine.
CallSearchImage(b, u) ==
    /\ pc = "idle"
    /\ op' = "search_image"
    /\ booru' = b
    /\ url' = u
    /\ LET c == search_image_check(b, accessible_engines) IN
         IF c = "ok"
         THEN /\ pc' = "searching"
              /\ invoked' = <<[engine |-> accessible_engines[
                                   search_image_engine(b, accessible_engines)].key,
                               url |-> u]>>
              /\ active' = StartSearch(active, b)
              /\ outcome' = outcome
         ELSE /\ pc' = "raised"
              /\ invoked' = invoked
              /\ active' = active
              /\ outcome' = Raised(c)
    /\ UNCHANGED <<callback, argDownload, download, idx, tags, source,
                   lastResult, returnedTags, returnedSources, cbLog, cbArgs>>
    /\ UNCHANGED <<registryVars, parserVars>>

\* The engine's search_image completes; search_image returns or propagates.
SearchImageDone ==
    /\ pc = "searching"
    /\ op = "search_image"
    /\ \E o \in EngineSearchImage(invoked[Len(invoked)].engine, invoked[Len(invoked)].url) :
         /\ lastResult' = o
         /\ outcome' = search_image_return(o)
         /\ pc' = IF o.status = "returned" THEN "returned" ELSE "raised"
    /\ active' = EndSearch(active, booru)
    /\ UNCHANGED <<op, booru, url, callback, argDownload, download, idx, tags,
                   source, invoked, returnedTags, returnedSources, cbLog, cbArgs>>
    /\ UNCHANGED <<registryVars, parserVars>>

\* await rs.search_image_source(u, cb, dl): the two sets are created.
CallSearchImageSource(u, cb, dl) ==
    /\ pc = "idle"
    /\ op' = "search_image_source"
    /\ url' = u
    /\ callback' = cb
    /\ argDownload' = dl
    /\ download' = dl
    /\ tags' = {}
    /\ source' = {}
    /\ idx' = 1
    /\ pc' = "loop"
    /\ UNCHANGED <<booru, invoked, lastResult, returnedTags, returnedSources,
                   cbLog, cbArgs, outcome, active>>
    /\ UNCHANGED <<registryVars, parserVars>>

\* await rs.reverse_search(u, cb, dl): enters search_image_source(url, callback).
CallReverseSearch(u, cb, dl) ==
    /\ pc = "idle"
    /\ op' = "reverse_search"
    /\ url' = u
    /\ callback' = cb
    /\ argDownload' = dl
    /\ download' = reverse_search_download(dl)
    /\ tags' = {}
    /\ source' = {}
    /\ idx' = 1
    /\ pc' = "loop"
    /\ UNCHANGED <<booru, invoked, lastResult, returnedTags, returnedSources,
                   cbLog, cbArgs, outcome, active>>
    /\ UNCHANGED <<registryVars, parserVars>>

InLoop == pc = "loop" /\ idx <= Len(accessible_engines)

\* The loop dropping the engine it skips from the registry.
LoopSkip_removes ==
    /\ InLoop
    /\ Skipped(accessible_engines[idx].key, download)
    /\ booru' = accessible_engines[idx].key
    /\ accessible_engines' =
           SubSeq(accessible_engines, 1, idx - 1)
               \o SubSeq(accessible_engines, idx + 1, Len(accessible_engines))
    /\ UNCHANGED <<pc, op, url, callback, argDownload, download, idx, tags, source,
                   invoked, lastResult, returnedTags, returnedSources, cbLog,
                   cbArgs, outcome, active>>
    /\ UNCHANGED <<config, download_required, parserVars>>

\* for booru in ...: download_required and not download: continue
LoopSkip ==
    /\ InLoop
    /\ Skipped(accessible_engines[idx].key, download)
    /\ booru' = accessible_engines[idx].key
    /\ idx' = idx + 1
    /\ UNCHANGED <<pc, op, url, callback, argDownload, download, tags, source,
                   invoked, lastResult, returnedTags, returnedSources, cbLog,
                   cbArgs, outcome, active>>
    /\ UNCHANGED <<registryVars, parserVars>>

\* result = await self.search_image(booru, url), up to the await of the engine.
LoopSearch ==
    /\ InLoop
    /\ ~Skipped(accessible_engines[idx].key, download)
    /\ booru' = accessible_engines[idx].key
    /\ LET c == search_image_check(booru', accessible_engines) IN
         IF c = "ok"
         THEN /\ pc' = "searching"
              /\ invoked' = Append(invoked,
                     [engine |-> accessible_engines[
                          search_image_engine(booru', accessible_engines)].key,
                      url |-> url])
              /\ active' = StartSearch(active, booru')
              /\ outcome' = outcome
         ELSE /\ pc' = "raised"
              /\ invoked' = invoked
              /\ active' = active
              /\ outcome' = Raised(c)
    /\ UNCHANGED <<op, url, callback, argDownload, download, idx, tags, source,
                   lastResult, returnedTags, returnedSources, cbLog, cbArgs>>
    /\ UNCHANGED <<registryVars, parserVars>>

\* The loop catching the engine's error and going on with the next engine.
EngineRaise_swallowed ==
    /\ pc = "searching"
    /\ op # "search_image"
    /\ \E o \in EngineSearchImage(invoked[Len(invoked)].engine, invoked[Len(invoked)].url) :
         /\ o.status = "raised"
         /\ lastResult' = o
    /\ pc' = "loop"
    /\ idx' = idx + 1
    /\ active' = EndSearch(active, booru)
    /\ UNCHANGED <<op, booru, url, callback, argDownload, download, tags, source,
                   invoked, returnedTags, returnedSources, cbLog, cbArgs, outcome>>
    /\ UNCHANGED <<registryVars, parserVars>>

\* The engine's search raised: the error leaves search_image_source.
EngineRaise ==
    /\ pc = "searching"
    /\ op # "search_image"
    /\ \E o \in EngineSearchImage(invoked[Len(invoked)].engine, invoked[Len(invoked)].url) :
         /\ o.status = "raised"
         /\ lastResult' = o
         /\ outcome' = search_image_return(o)
    /\ pc' = "raised"
    /\ active' = EndSearch(active, booru)
    /\ UNCHANGED <<op, booru, url, callback, argDownload, download, idx, tags,
                   source, invoked, returnedTags, returnedSources, cbLog, cbArgs>>
    /\ UNCHANGED <<registryVars, parserVars>>

\* The engine's search returned: the result is merged and the callback, if
\* any, is called.
EngineReturn ==
    /\ pc = "searching"
    /\ op # "search_image"
    /\ \E o \in EngineSearchImage(invoked[Len(invoked)].engine, invoked[Len(invoked)].url) :
         /\ o.status = "returned"
         /\ LET result == search_image_return(o).value IN
              /\ tags' = TagsUpdate(tags, result)
              /\ source' = SourceUpdate(source, result)
              /\ returnedTags' = returnedTags \cup o.value.tags
              /\ returnedSources' = returnedSources \cup SourcesOf(o.value)
              /\ IF callback
                 THEN /\ pc' = "callback"
                      /\ lastResult' = o
                      /\ cbLog' = Append(cbLog, booru)
                      /\ cbArgs' = CallbackArgs(booru, result)
                      /\ active' = StartCallback(EndSearch(active, booru), booru)
                      /\ idx' = idx
                 ELSE /\ pc' = "loop"
                      /\ lastResult' = NoResult
                      /\ active' = EndSearch(active, booru)
                      /\ cbLog' = cbLog
                      /\ cbArgs' = cbArgs
                      /\ idx' = idx + 1
    /\ UNCHANGED <<op, booru, url, callback, argDownload, download, invoked, outcome>>
    /\ UNCHANGED <<registryVars, parserVars>>

\* await callback(...) completes.
CallbackReturn ==
    /\ pc = "callback"
    /\ pc' = "loop"
    /\ idx' = idx + 1
    /\ lastResult' = NoResult
    /\ cbArgs' = NoCallbackArgs
    /\ active' = EndCallback(active, booru)
    /\ UNCHANGED <<op, booru, url, callback, argDownload, download, tags, source,
                   invoked, returnedTags, returnedSources, cbLog, outcome>>
    /\ UNCHANGED <<registryVars, parserVars>>

\* await callback(...) raises: the error leaves search_image_source.
CallbackRaise ==
    /\ pc = "callback"
    /\ pc' = "raised"
    /\ outcome' = Raised("CallbackError")
    /\ active' = EndCallback(active, booru)
    /\ UNCHANGED <<op, booru, url, callback, argDownload, download, idx, tags,
                   source, invoked, lastResult, returnedTags, returnedSources,
                   cbLog, cbArgs>>
    /\ UNCHANGED <<registryVars, parserVars>>

\* The value the public method returns once the loop is over.
ReturnValue(o, t, src) ==
    IF o = "reverse_search"
    THEN [tags |-> t, source |-> None]
    ELSE [tags |-> t, source |-> SetOf(src)]

\* return {"tags": tags, "source": source}; reverse_search returns the tags.
LoopExit ==
    /\ pc = "loop"
    /\ idx > Len(accessible_engines)
    /\ pc' = "returned"
    /\ outcome' = Returned(ReturnValue(op, tags, source))
    /\ UNCHANGED <<op, booru, url, callback, argDownload, download, idx, tags,
                   source, invoked, lastResult, returnedTags, returnedSources,
                   cbLog, cbArgs, active>>
    /\ UNCHANGED <<registryVars, parserVars>>

\* The caller has its answer; the next call starts from fresh locals.
Finish ==
    /\ pc \in {"returned", "raised"}
    /\ pc' = "idle"
    /\ op' = ""
    /\ booru' = ""
    /\ url' = ""
    /\ callback' = FALSE
    /\ argDownload' = FALSE
    /\ download' = FALSE
    /\ idx' = 0
    /\ tags' = {}
    /\ source' = {}
    /\ invoked' = <<>>
    /\ lastResult' = NoResult
    /\ returnedTags' = {}
    /\ returnedSources' = {}
    /\ cbLog' = <<>>
    /\ cbArgs' = NoCallbackArgs
    /\ outcome' = NoResult
    /\ active' = {}
    /\ UNCHANGED <<registryVars, parserVars>>

Next ==
    \/ \E b \in BooruNames, u \in Urls : CallSearchImage(b, u)
    \/ SearchImageDone
    \/ \E u \in Urls, cb \in BOOLEAN, dl \in BOOLEAN : CallSearchImageSource(u, cb, dl)
    \/ \E u \in Urls, cb \in BOOLEAN, dl \in BOOLEAN : CallReverseSearch(u, cb, dl)
    \/ LoopSkip
    \/ LoopSearch
    \/ EngineRaise
    \/ EngineReturn
    \/ CallbackReturn
    \/ CallbackRaise
    \/ LoopExit
    \/ Finish

Spec == Init /\ [][Next]_vars

----------------------------------------------------------------------------
(* Properties *)

InvokedEngines == [i \in DOMAIN invoked |-> invoked[i].engine]

InvokedSet == {invoked[i].engine : i \in DOMAIN invoked}

\* Position of engine e in the registry.
RegistryIndex(e) == CHOOSE i \in DOMAIN accessible_engines : accessible_engines[i].key = e

\* The activated engines a call with download flag dl does not skip.
NotSkipped(dl) == {e \in Accessible(accessible_engines) : ~Skipped(e, dl)}

Aggregating == op \in {"search_image_source", "reverse_search"}

Ended == pc \in {"returned", "raised"}

C2_MissingAPIKeys ==
    (op = "search_image" /\ booru \in AllEngineNames
        /\ ~(RequiredFields(booru) \subseteq config))
        => /\ pc = "raised"
           /\ outcome = Raised("MissingAPIKeysException")
           /\ invoked = <<>>

C2_Witness ==
    /\ op = "search_image"
    /\ booru = "danbooru"
    /\ config = {}
    /\ pc = "raised"

\* The configuration fields that are settings, not credentials.
Settings == {"min_score"}

Credentials(e) == RequiredFields(e) \ Settings

\* C3 as stated: an engine is activated iff all its required fields are
\* present, and an engine that requires no credentials is always activated.
C3_Original ==
    \A e \in AllEngineNames :
        /\ e \in Accessible(accessible_engines) <=> RequiredFields(e) \subseteq config
        /\ Credentials(e) = {} => e \in Accessible(accessible_engines)

\* C3 (amended): an engine is activated iff all the configuration fields its
\* constructor is given are present, min_score included; an engine that needs
\* no configuration field at all is always activated; each activated engine
\* is built from exactly its required fields.
C3_Activation ==
    /\ \A e \in AllEngineNames :
        /\ e \in Accessible(accessible_engines) <=> RequiredFields(e) \subseteq config
        /\ RequiredFields(e) = {} => e \in Accessible(accessible_engines)
    /\ \A i \in DOMAIN accessible_engines :
        /\ accessible_engines[i].key \in AllEngineNames
        /\ {accessible_engines[i].args[k] : k \in DOMAIN accessible_engines[i].args}
               = RequiredFields(accessible_engines[i].key)

C3_Witness ==
    /\ config = {"saucenao_api_key", "danbooru_username", "danbooru_api_key"}
    /\ Accessible(accessible_engines) = {"saucenao", "paheal"}

\* C4 as stated: with download=false no engine with download_required is
\* invoked; with download=true every activated engine is invoked.
C4_Original ==
    (op = "search_image_source" /\ Ended)
        => IF download
           THEN InvokedSet = Accessible(accessible_engines)
           ELSE \A e \in InvokedSet : ~download_required[e]

\* C4 (amended): with download=false no engine with download_required is
\* invoked; with download=true no engine is skipped: the engines are invoked
\* in registry order, all of them once the call returns, and up to the one
\* whose search or callback failed otherwise.
C4_DownloadGate ==
    Aggregating =>
        /\ ~download => \A e \in InvokedSet : ~download_required[e]
        /\ download =>
            /\ Len(invoked) <= Len(accessible_engines)
            /\ \A i \in DOMAIN invoked : invoked[i].engine = accessible_engines[i].key
            /\ pc = "returned" => InvokedSet = Accessible(accessible_engines)
            /\ pc = "loop" => Len(invoked) = idx - 1

C4_Witness ==
    /\ op = "search_image_source"
    /\ download
    /\ pc = "returned"
    /\ Len(invoked) >= 3
    /\ \E e \in InvokedSet : download_required[e]

\* C5: when search_image_source returns, its tags are exactly the union of
\* the tag sets returned by the activated engines that were not skipped.
C5_TagsUnion ==
    (op = "search_image_source" /\ pc = "returned")
        => /\ outcome.status = "returned"
           /\ outcome.value.tags = returnedTags
           /\ InvokedSet = NotSkipped(download)
           /\ Len(invoked) = Cardinality(InvokedSet)

C5_Witness ==
    /\ op = "search_image_source"
    /\ pc = "returned"
    /\ Len(invoked) >= 2
    /\ Len(invoked) < Len(accessible_engines)
    /\ outcome.value.tags = {"t1", "t2"}

\* C6 as stated: when search_image_source returns, its source set is exactly
\* the set of source urls the searched engines returned, each url one element.
C6_Original ==
    (op = "search_image_source" /\ pc = "returned")
        => outcome.value.source = SetOf(returnedSources)

\* The candidates of response j that qualify as a source.
Qualifying(j) ==
    {i \in DOMAIN j.results :
        /\ InSourceIndexes(j.results[i].index_id)
        /\ float(j.results[i].similarity) > j.minimum_similarity}

Rank(j, i) == ListIndex(source_indexes, j.results[i].index_id)

\* The first candidate among the qualifying ones of best rank.
Winner(j) ==
    CHOOSE i \in Qualifying(j) :
        /\ \A k \in Qualifying(j) : Rank(j, i) <= Rank(j, k)
        /\ \A k \in Qualifying(j) : Rank(j, k) = Rank(j, i) => i <= k

\* C7 as stated: when some candidate qualifies, index_parser returns as
\* source the first ext_url of the first qualifying candidate of best rank.
C7_Original ==
    (parsed.status # "none" /\ Qualifying(json) # {})
        => /\ parsed.status = "returned"
           /\ parsed.source = Str(json.results[Winner(json)].ext_urls[1])

\* C8 as stated: with a callback that returns normally, the callback is
\* invoked once for each engine searched, in dispatch order.
C8_Original ==
    (op = "search_image_source" /\ callback /\ Ended /\ outcome.error # "CallbackError")
        => cbLog = InvokedEngines

\* The engines whose search has returned a result in this call.
Completed ==
    IF pc = "searching" \/ (pc = "raised" /\ lastResult.status = "raised")
    THEN SubSeq(InvokedEngines, 1, Len(invoked) - 1)
    ELSE InvokedEngines

\* C8 (amended): the callback is invoked once for each engine whose search
\* returned a result, in dispatch order, never for a skipped engine nor for
\* one whose search raised, with that engine's name, tags and source.
C8_Callback ==
    Aggregating =>
        /\ callback => cbLog = Completed
        /\ ~callback => cbLog = <<>> /\ pc # "callback"
        /\ \A i \in DOMAIN cbLog : ~Skipped(cbLog[i], download)
        /\ \A i, k \in DOMAIN cbLog :
               i < k => RegistryIndex(cbLog[i]) < RegistryIndex(cbLog[k])
        /\ pc = "callback" =>
               /\ lastResult.status = "returned"
               /\ cbArgs = [booru |-> accessible_engines[idx].key,
                            tags |-> lastResult.value.tags,
                            source |-> lastResult.value.source]
               /\ cbLog[Len(cbLog)] = accessible_engines[idx].key

C8_Witness ==
    /\ op = "search_image_source"
    /\ pc = "callback"
    /\ Len(cbLog) = 2
    /\ idx = 3
    /\ cbArgs.tags # tags
    /\ cbArgs.source = Str(<<"a", "b">>)

\* C9 as stated: reverse_search returns the tags search_image_source returns
\* for the same url, callback and download, having searched the same engines,
\* and no sources.
C9_Original ==
    (op = "reverse_search" /\ pc = "returned")
        => /\ outcome.value = [tags |-> returnedTags, source |-> None]
           /\ InvokedSet = NotSkipped(argDownload)

\* C10: search_image with an activated name calls that engine's search_image
\* once with the url, calls no other engine, and its outcome is the engine's.
C10_Delegates ==
    (op = "search_image" /\ booru \in Accessible(accessible_engines))
        => /\ pc \in {"searching", "returned", "raised"}
           /\ invoked = <<[engine |-> booru, url |-> url]>>
           /\ Ended => /\ lastResult.status \in {"returned", "raised"}
                       /\ outcome = lastResult
                       /\ pc = outcome.status

C10_Witness ==
    /\ op = "search_image"
    /\ booru = "iqdb"
    /\ pc = "returned"
    /\ outcome.value = [tags |-> {"t1", "t2"}, source |-> Str(<<"a", "b">>)]

\* C11: the registry is the one __init__ built and no step of any call,
\* successful or failed, changes it.
C11_RegistryFixed ==
    /\ [](accessible_engines = Construct(config))
    /\ [][accessible_engines' = accessible_engines /\ config' = config]_vars

C11_Witness ==
    /\ op = "search_image_source"
    /\ pc = "raised"
    /\ download = FALSE
    /\ \E i \in DOMAIN accessible_engines : download_required[accessible_engines[i].key]
    /\ Len(invoked) >= 2
    /\ Len(accessible_engines) = 5
    /\ accessible_engines = Construct(config)

\* C12: search_tag raises NotAvailableSearchOption for every tag, whatever
\* the engine has done before, and issues no request.
C12_SearchTagRaises ==
    /\ [](tagSearch.status # "none" =>
             /\ tagSearch.status = "raised"
             /\ tagSearch.error = "NotAvailableSearchOption")
    /\ [][tagSearch' # tagSearch => requests' = requests]_vars

C12_Witness ==
    /\ tagSearch.status = "raised"
    /\ tagSearch.tag = "t2"
    /\ Len(requests) = 2
    /\ parsed.status # "none"

\* The engine whose search failed is the one the loop stands at, and neither
\* it nor a later engine was called back; no engine after it was invoked.
FailedAtLoopEngine ==
    /\ outcome.status = "raised"
    /\ outcome = lastResult
    /\ invoked[Len(invoked)].engine = accessible_engines[idx].key
    /\ \A i \in DOMAIN invoked : RegistryIndex(invoked[i].engine) <= idx
    /\ \A i \in DOMAIN cbLog : RegistryIndex(cbLog[i]) < idx

\* C13: when an engine's search fails inside search_image_source, the call
\* raises that error at once: no later engine is invoked, the callback is
\* invoked neither for the failing engine nor for a later one, and no merged
\* result is returned.
C13_FailureAborts ==
    /\ []((Aggregating /\ pc = "raised" /\ lastResult.status = "raised")
             => FailedAtLoopEngine)
    /\ [][(Aggregating /\ pc = "searching" /\ lastResult'.status = "raised")
             => /\ pc' = "raised"
                /\ outcome' = lastResult'
                /\ invoked' = invoked
                /\ cbLog' = cbLog]_vars
    /\ [][(Aggregating /\ pc = "raised") => (pc' = "idle" /\ invoked' = <<>>)]_vars

C13_Witness ==
    /\ op = "search_image_source"
    /\ callback
    /\ pc = "raised"
    /\ lastResult = Raised("EngineError")
    /\ outcome = Raised("EngineError")
    /\ idx = 2
    /\ Len(cbLog) = 1
    /\ Len(accessible_engines) >= 3
    /\ tags # {}

\* C14: within a call at most one engine search or callback is in progress,
\* and none is while the loop moves on to the next engine.
C14_Sequential ==
    /\ Cardinality(active) <= 1
    /\ pc = "searching" <=> active = {[kind |-> "search", engine |-> booru]}
    /\ pc = "callback" <=> active = {[kind |-> "callback", engine |-> booru]}
    /\ pc \in {"idle", "loop", "returned", "raised"} => active = {}

C14_Witness ==
    /\ op = "search_image_source"
    /\ pc = "searching"
    /\ callback
    /\ Len(cbLog) = 2
    /\ active = {[kind |-> "search", engine |-> "paheal"]}

\* C15: the source index_parser returns never comes from a candidate that
\* does not qualify, and when no candidate qualifies the call returns with
\* source none.
C15_OnlyQualifying ==
    parsed.status # "none" =>
        /\ parsed.status = "returned" =>
              \/ parsed.source = None
              \/ \E i \in Qualifying(json) :
                    parsed.source = Str(json.results[i].ext_urls[1])
        /\ Qualifying(json) = {} =>
              /\ parsed.status = "returned"
              /\ parsed.source = None

C15_Witness ==
    /\ parsed.status = "returned"
    /\ parsed.source = None
    /\ Len(json.results) = 2
    /\ json.results[1].index_id = 5
    /\ json.results[1].similarity = <<"5", "0">>
    /\ json.results[2].index_id = 9
    /\ json.results[2].similarity = <<"7", "0">>

\* The qualifying candidates of best rank.
BestRanked(j) ==
    {i \in Qualifying(j) : \A k \in Qualifying(j) : Rank(j, i) <= Rank(j, k)}

\* C16 as stated: when several qualifying candidates share the best rank,
\* the source is that of the one that comes first in the response.
C16_Original ==
    (parsed.status # "none" /\ Cardinality(BestRanked(json)) >= 2)
        => /\ parsed.status = "returned"
           /\ \E i \in BestRanked(json) :
                 /\ \A k \in BestRanked(json) : i <= k
                 /\ parsed.source = Str(json.results[i].ext_urls[1])

----------------------------------------------------------------------------
(* SauceNao.index_parser applied to a response *)

InitParser ==
    /\ config = {}
    /\ download_required = [e \in AllEngineNames |-> FALSE]
    /\ accessible_engines = Construct(config)
    /\ IdleCall
    /\ json \in Responses
    /\ parsed = NotParsed
    /\ api_key = "key1"
    /\ requests = <<>>
    /\ tagSearch = NoTagSearch

\* await sauce.index_parser(json)
Parse ==
    /\ parsed.status = "none"
    /\ parsed' = index_parser(json)
    /\ UNCHANGED <<json, api_key, requests, tagSearch, registryVars, callVars>>

NextParser == Parse

SpecParser == InitParser /\ [][NextParser]_vars

----------------------------------------------------------------------------
(* The SauceNao engine: search_image_source, search_tag, index_parser *)

\* Largest number of requests of one behaviour.
MaxRequests == 2

ApiKeys == {"key1", "key2"}

\* The responses r.json() may hand back: those with at most one candidate.
SmallResponses ==
    [minimum_similarity : MinimumSimilarities, results : SeqsUpTo(Candidates, 1)]

\* The GET request of SauceNao.search_image_source.
SauceNaoRequest(k, u) ==
    [request_url |-> "https://saucenao.com/search.php",
     db |-> "999", api_key |-> k, output_type |-> "2", url |-> u]

\* search_tag answering with an empty result instead of raising.
search_tag_empty_result(t) == [status |-> "returned", error |-> "", tag |-> t]

\* SauceNao.search_tag(tag)
search_tag(t) == [status |-> "raised", error |-> "NotAvailableSearchOption", tag |-> t]

InitSauceNao ==
    /\ config = {"saucenao_api_key"}
    /\ download_required = [e \in AllEngineNames |-> FALSE]
    /\ accessible_engines = Construct(config)
    /\ IdleCall
    /\ \E k \in ApiKeys : FreshSauceNao(k)

\* await sauce.search_image_source(u): one request, its JSON body returned.
SauceNaoSearchImageSource(u) ==
    /\ Len(requests) < MaxRequests
    /\ requests' = Append(requests, SauceNaoRequest(api_key, u))
    /\ json' \in SmallResponses
    /\ parsed' = NotParsed
    /\ UNCHANGED <<api_key, tagSearch, registryVars, callVars>>

\* await sauce.search_tag(t)
SauceNaoSearchTag(t) ==
    /\ tagSearch' = search_tag(t)
    /\ UNCHANGED <<json, parsed, api_key, requests, registryVars, callVars>>

NextSauceNao ==
    \/ \E u \in Urls : SauceNaoSearchImageSource(u)
    \/ \E t \in Tags : SauceNaoSearchTag(t)
    \/ Parse

SpecSauceNao == InitSauceNao /\ [][NextSauceNao]_vars

----------------------------------------------------------------------------
(* search_image_source with an engine whose result carries tags None *)

\* result["tags"] is None, as in the dict index_parser returns.
NoneTags == {"None"}

\* The results with tags None an engine may return.
NoneTagsResults == {[tags |-> NoneTags, source |-> s] : s \in SourceValues}

\* The engine's search returned a result with tags None: tags.update(None)
\* raises TypeError, which leaves search_image_source.
EngineReturnNoneTags ==
    /\ pc = "searching"
    /\ op # "search_image"
    /\ invoked[Len(invoked)].engine # "saucenao"
    /\ \E r \in NoneTagsResults :
         /\ lastResult' = search_image_return(Returned(r))
         /\ returnedSources' = returnedSources \cup SourcesOf(r)
    /\ pc' = "raised"
    /\ outcome' = Raised("TypeError")
    /\ active' = EndSearch(active, booru)
    /\ UNCHANGED <<op, booru, url, callback, argDownload, download, idx, tags,
                   source, invoked, returnedTags, cbLog, cbArgs>>
    /\ UNCHANGED <<registryVars, parserVars>>

NextNoneTags ==
    \/ Next
    \/ EngineReturnNoneTags

SpecNoneTags == Init /\ [][NextNoneTags]_vars

====
